---- MODULE Spec2Model ----
(***************************************************************************)
(* zipper: an HTTP handler that resolves a token to a manifest kept in a   *)
(* lookup store (redis), fetches every object of the manifest from an      *)
(* object store (S3) and streams them to the client as one zip archive.    *)
(*                                                                         *)
(* src/zipper.go holds two programs: the one built around                  *)
(* (srv *server).handler (lines 1-226, impl = "server") and the older one  *)
(* built around handler (lines 228-452, impl = "legacy").  Both are        *)
(* modelled; impl says which of them is the running process.               *)
(*                                                                         *)
(* Go strings are modelled as sequences of one-character strings.          *)
(***************************************************************************)
EXTENDS Integers, Sequences, FiniteSets, TLC

VARIABLES
    impl,       \* which program runs: "server" or "legacy"
    store,      \* the lookup store: key -> stored value
    pc,         \* per request: position of the handler
    qry,        \* per request: r.URL.Query(), parameter name -> first value
    token,      \* per request: token[0] / token
    as,         \* per request: as[0] / downloadAs[0], the archive name
    files,      \* per request: the resolved manifest
    idx,        \* per request: position of the range loop (1-based)
    safeFileName, \* per request: the loop's local safeFileName
    rdr,        \* per request: the object stream, "none" | "open" | "closed"
    streams,    \* per request: the object streams opened and not yet closed
    f,          \* per request: the writer CreateHeader returned, "none" | "nil" | "w"
    zwMade,     \* per request: zip.NewWriter(w) was called
    zwCloses,   \* per request: number of calls of zw.Close()
    entries,    \* per request: the entries opened in the archive, in order
    header,     \* per request: w.Header(), header name -> value
    status,     \* per request: the response status, 0 while none is set
    fetches,    \* per request: the calls of bucket.GetReader, in order
    gets,       \* per request: the GETs sent to the lookup store, their replies
                \* and what the store held under the key at that moment
    conn,       \* per request: the pooled connection, "none" | "borrowed" | "closed"
    broken,     \* per request: a write to the response sink has failed
    panicked,   \* per request: the handler ended by a panic
    sanIn,      \* the sanitizer's input (sanitizer specification)
    sanOut      \* the sanitizer's results so far (sanitizer specification)

reqVars == <<pc, qry, token, as, files, idx, safeFileName, rdr, streams, f, zwMade,
             zwCloses, entries, header, status, fetches, gets, conn, broken,
             panicked>>
vars == <<impl, store, reqVars, sanIn, sanOut>>

----------------------------------------------------------------------------
(* Bounds *)

MaxFiles == 3       \* longest manifest kept in the store
MaxLen == 3         \* longest input of the sanitizer specification

----------------------------------------------------------------------------
(* Program constants *)

StatusBadRequest == 400
StatusUnauthorized == 401
StatusInternalServerError == 500
StatusOK == 200

\* the class with its last escape lost: the backslash is not in it
UnsafeCharsNoBackslash == {"#", "<", ">", ":", "\"", "/", "|", "?", "*"}

\* regexp.MustCompile(`[#<>:"/\|?*\\]`): the characters of the class
UnsafeChars == {"#", "<", ">", ":", "\"", "/", "|", "?", "*", "\\"}

DefaultName == <<"d", "o", "w", "n", "l", "o", "a", "d", ".", "z", "i", "p">>
DefaultFile == <<"f", "i", "l", "e">>
ZipPrefix == <<"z", "i", "p", ":">>

----------------------------------------------------------------------------
(* The sanitizer: safeFileName.ReplaceAllString(s, "") *)

\* Left to right, every match of the one-character class is replaced by "".
RECURSIVE ReplaceAllString(_)
ReplaceAllString(s) ==
    IF s = <<>> THEN <<>>
    ELSE IF Head(s) \in UnsafeChars
         THEN ReplaceAllString(Tail(s))
         ELSE <<Head(s)>> \o ReplaceAllString(Tail(s))

srv_safeFileName(s) == ReplaceAllString(s)

makeSafeFileName(s) == ReplaceAllString(s)

----------------------------------------------------------------------------
(* Inputs *)

Impls == {"server", "legacy"}
Reqs == {1, 2}
Active == {1}

TokenVals == {<<>>, <<"t">>}
AsVals == {<<>>, <<"a", "?">>, <<"?">>}

Queries ==
    { q \in UNION {[S -> TokenVals \cup AsVals] : S \in SUBSET {"token", "as"}} :
        /\ ("token" \in DOMAIN q => q["token"] \in TokenVals)
        /\ ("as" \in DOMAIN q => q["as"] \in AsVals) }

redisFile(p, n, d) == [S3Path |-> p, FileName |-> n, Folder |-> d]

Descriptors ==
    { redisFile(<<>>, <<"a">>, <<>>),
      redisFile(<<"p">>, <<"a", "?">>, <<>>),
      redisFile(<<"p">>, <<"?">>, <<"d">>),
      redisFile(<<"p">>, <<"a">>, <<":", "/">>) }

Manifests == UNION {[1..n -> Descriptors] : n \in 0..MaxFiles}

\* What a key of the lookup store holds: nothing, bytes that are no JSON list
\* of descriptors, or the JSON encoding of a manifest.
Absent == [kind |-> "absent"]
BadJSON == [kind |-> "bytes", json |-> "bad", list |-> <<>>]
JSON(m) == [kind |-> "bytes", json |-> "list", list |-> m]
StoreVals == {Absent, BadJSON} \cup {JSON(m) : m \in Manifests}

Key(tkn) == ZipPrefix \o tkn
Keys == {Key(t) : t \in TokenVals}

\* bucket.GetReader: a stream, an *s3.Error with StatusCode 404, another error
FetchOutcomes == {"ok", "notfound", "failed"}

----------------------------------------------------------------------------
(* The resolver *)

\* What conn.Do("GET", key) can return: a transport error, a reply that is no
\* []byte, nil for a key the store does not hold, or the bytes the key holds.
Replies(key) ==
    {[kind |-> "err"], [kind |-> "other"]}
        \cup {IF store[key] = Absent THEN [kind |-> "nil"] ELSE store[key]}

\* json.Unmarshal(b, &files)
Unmarshal(b) ==
    IF b.json = "list" THEN [files |-> b.list, err |-> "nil"]
    ELSE [files |-> <<>>, err |-> "json"]

\* getRedisFiles, from the reply of the GET on: every failure is an error value.
getRedisFiles(rply) ==
    IF rply.kind = "err" THEN [files |-> <<>>, err |-> "transport", panic |-> FALSE]
    ELSE IF rply.kind = "nil"
        THEN [files |-> <<>>, err |-> "No files found", panic |-> FALSE]
    ELSE IF rply.kind # "bytes"
        THEN [files |-> <<>>, err |-> "Assertion failed", panic |-> FALSE]
    ELSE [files |-> Unmarshal(rply).files, err |-> Unmarshal(rply).err,
          panic |-> FALSE]

\* getFilesFromRedis, from the reply of the GET on: failures panic, except a
\* reply that is no []byte, which returns (nil, nil).
getFilesFromRedis(rply) ==
    IF rply.kind = "err" THEN [files |-> <<>>, err |-> "transport", panic |-> TRUE]
    ELSE IF rply.kind = "nil" THEN [files |-> <<>>, err |-> "nil", panic |-> TRUE]
    ELSE IF rply.kind # "bytes" THEN [files |-> <<>>, err |-> "nil", panic |-> FALSE]
    ELSE IF Unmarshal(rply).err # "nil"
        THEN [files |-> <<>>, err |-> Unmarshal(rply).err, panic |-> TRUE]
    ELSE [files |-> Unmarshal(rply).files, err |-> "nil", panic |-> FALSE]

----------------------------------------------------------------------------
(* Helpers of the handlers *)

\* w.WriteHeader(code): the first status set is the response's status
WriteHeader(r, code) == [status EXCEPT ![r] = IF @ = 0 THEN code ELSE @]

\* as[0] of server.handler (lines 129-138)
srvArchiveName(q) ==
    LET ok == "as" \in DOMAIN q
        as0 == IF ok THEN srv_safeFileName(q["as"]) ELSE DefaultName
    IN  IF Len(as0) = 0 THEN DefaultName ELSE as0

\* downloadAs[0] of handler (lines 374-383): the branch that sanitizes needs
\* !ok and a value at once, so it is never taken; a value that is present is
\* kept as it came and the default is appended behind it.
legArchiveName(q) ==
    LET ok == "as" \in DOMAIN q
        downloadAs == IF ok THEN <<q["as"]>> ELSE <<>>
        san == makeSafeFileName(downloadAs[1])
        res == IF ~ok /\ Len(downloadAs) > 0
               THEN <<IF san = <<>> THEN DefaultName ELSE san>>
               ELSE Append(downloadAs, DefaultName)
    IN  res[1]

\* the loop's safeFileName (lines 157-161, 405-409)
EntryName(file) ==
    LET s == srv_safeFileName(file.FileName)
    IN  IF s = <<>> THEN DefaultFile ELSE s

\* strings.HasSuffix(s, "/")
HasSuffixSlash(s) == Len(s) > 0 /\ s[Len(s)] = "/"

\* zipPath without the HasSuffix test of line 180: a "/" is always added
ZipPathAlwaysSep(file, safe) ==
    LET withSep == IF file.Folder # <<>> THEN file.Folder \o <<"/">> ELSE <<>>
    IN  withSep \o safe

\* zipPath (lines 176-185, 426-436): the folder as stored, a "/" unless the
\* folder ends with one, the safe file name
ZipPath(file, safe) ==
    LET withFolder == IF file.Folder # <<>> THEN file.Folder ELSE <<>>
        withSep == IF file.Folder # <<>> /\ ~HasSuffixSlash(withFolder)
                   THEN withFolder \o <<"/">> ELSE withFolder
    IN  withSep \o safe

\* "attachment; filename=\"" + name + "\""
Disposition(name) ==
    <<"a", "t", "t", "a", "c", "h", "m", "e", "n", "t", ";", " ",
      "f", "i", "l", "e", "n", "a", "m", "e", "=", "\"">> \o name \o <<"\"">>

ContentType == <<"application/zip">>

\* log.Printf of the request, then the handler returns: a response on which
\* no status was set goes out as 200
Finished(r) == WriteHeader(r, StatusOK)

----------------------------------------------------------------------------
(* Initial state: the process is up, the store holds what a writer outside  *)
(* this program put there, no request has arrived.                          *)

Init ==
    /\ impl \in Impls
    /\ store \in {[k \in Keys |-> IF k = Key(<<"t">>) THEN v ELSE Absent] :
                    v \in StoreVals}
    /\ pc = [r \in Reqs |-> "idle"]
    /\ qry = [r \in Reqs |-> <<>>]
    /\ token = [r \in Reqs |-> <<>>]
    /\ as = [r \in Reqs |-> <<>>]
    /\ files = [r \in Reqs |-> <<>>]
    /\ idx = [r \in Reqs |-> 1]
    /\ safeFileName = [r \in Reqs |-> <<>>]
    /\ rdr = [r \in Reqs |-> "none"]
    /\ streams = [r \in Reqs |-> {}]
    /\ f = [r \in Reqs |-> "none"]
    /\ zwMade = [r \in Reqs |-> FALSE]
    /\ zwCloses = [r \in Reqs |-> 0]
    /\ entries = [r \in Reqs |-> <<>>]
    /\ header = [r \in Reqs |-> <<>>]
    /\ status = [r \in Reqs |-> 0]
    /\ fetches = [r \in Reqs |-> <<>>]
    /\ gets = [r \in Reqs |-> <<>>]
    /\ conn = [r \in Reqs |-> "none"]
    /\ broken = [r \in Reqs |-> FALSE]
    /\ panicked = [r \in Reqs |-> FALSE]
    /\ sanIn = <<>>
    /\ sanOut = <<>>

inVars == <<qry, token, as, files>>
loopVars == <<idx, safeFileName, rdr, streams, f>>
zipVars == <<zwMade, zwCloses, entries>>
lookupVars == <<gets, conn>>
envVars == <<impl, store, sanIn, sanOut>>

----------------------------------------------------------------------------
(* A request arrives: net/http calls the handler with its query string.     *)

Accept(r) ==
    /\ pc[r] = "idle"
    /\ \E q \in Queries : qry' = [qry EXCEPT ![r] = q]
    /\ pc' = [pc EXCEPT ![r] = "validate"]
    /\ UNCHANGED <<token, as, files, loopVars, zipVars, header, status, fetches,
                   lookupVars, broken, panicked, envVars>>

----------------------------------------------------------------------------
(* server.handler, lines 114-199 *)

\* lines 117-127: an empty query, a missing token or an empty token is a 400
srvValidate(r) ==
    /\ impl = "server"
    /\ pc[r] = "validate"
    /\ IF DOMAIN qry[r] = {}
       THEN /\ status' = WriteHeader(r, StatusBadRequest)
            /\ pc' = [pc EXCEPT ![r] = "done"]
            /\ UNCHANGED token
       ELSE IF "token" \notin DOMAIN qry[r] \/ Len(qry[r]["token"]) = 0
       THEN /\ status' = WriteHeader(r, StatusBadRequest)
            /\ pc' = [pc EXCEPT ![r] = "done"]
            /\ UNCHANGED token
       ELSE /\ token' = [token EXCEPT ![r] = qry[r]["token"]]
            /\ pc' = [pc EXCEPT ![r] = "as"]
            /\ UNCHANGED status
    /\ UNCHANGED <<qry, as, files, loopVars, zipVars, header, fetches,
                   lookupVars, broken, panicked, envVars>>

\* lines 129-138
srvAs(r) ==
    /\ impl = "server"
    /\ pc[r] = "as"
    /\ as' = [as EXCEPT ![r] = srvArchiveName(qry[r])]
    /\ pc' = [pc EXCEPT ![r] = "resolve"]
    /\ UNCHANGED <<qry, token, files, loopVars, zipVars, header, status, fetches,
                   lookupVars, broken, panicked, envVars>>

\* lines 140-144 with getRedisFiles (201-226): one GET on a borrowed
\* connection, which the deferred conn.Close() returns; an error is a 401
srvResolve(r) ==
    /\ impl = "server"
    /\ pc[r] = "resolve"
    /\ \E rply \in Replies(Key(token[r])) :
         LET res == getRedisFiles(rply) IN
         /\ gets' = [gets EXCEPT ![r] =
                      Append(@, [key |-> Key(token[r]), rply |-> rply,
                                 held |-> store[Key(token[r])]])]
         /\ conn' = [conn EXCEPT ![r] = "closed"]
         /\ IF res.err # "nil"
            THEN /\ status' = WriteHeader(r, StatusUnauthorized)
                 /\ pc' = [pc EXCEPT ![r] = "done"]
                 /\ UNCHANGED files
            ELSE /\ files' = [files EXCEPT ![r] = res.files]
                 /\ pc' = [pc EXCEPT ![r] = "headers"]
                 /\ UNCHANGED status
    /\ UNCHANGED <<qry, token, as, loopVars, zipVars, header, fetches,
                   broken, panicked, envVars>>

\* lines 146-150: the two headers, zip.NewWriter(w), defer zw.Close()
srvHeaders(r) ==
    /\ impl = "server"
    /\ pc[r] = "headers"
    /\ header' = [header EXCEPT ![r] =
                    [h \in {"Content-Disposition", "Content-Type"} |->
                       IF h = "Content-Disposition" THEN Disposition(as[r])
                       ELSE ContentType]]
    /\ zwMade' = [zwMade EXCEPT ![r] = TRUE]
    /\ pc' = [pc EXCEPT ![r] = "range"]
    /\ UNCHANGED <<inVars, loopVars, zwCloses, entries, status, fetches,
                   lookupVars, broken, panicked, envVars>>

\* line 198 and the deferred zw.Close() of line 150
srvReturn(r) ==
    /\ impl = "server"
    /\ pc[r] = "return"
    /\ zwCloses' = [zwCloses EXCEPT ![r] = @ + 1]
    /\ status' = Finished(r)
    /\ pc' = [pc EXCEPT ![r] = "done"]
    /\ UNCHANGED <<inVars, loopVars, zwMade, entries, header, fetches,
                   lookupVars, broken, panicked, envVars>>

----------------------------------------------------------------------------
(* handler, lines 360-452 *)

\* lines 364-371: only a missing token is refused, with http.Error(w, "", 500);
\* an empty token passes
legValidate(r) ==
    /\ impl = "legacy"
    /\ pc[r] = "validate"
    /\ LET ok == "token" \in DOMAIN qry[r]
           tokens == IF ok THEN <<qry[r]["token"]>> ELSE <<>>
       IN  IF ~ok \/ Len(tokens) < 1
           THEN /\ status' = WriteHeader(r, StatusInternalServerError)
                /\ header' = [header EXCEPT ![r] =
                                [h \in {"Content-Type"} |-> <<"text/plain">>]]
                /\ pc' = [pc EXCEPT ![r] = "done"]
                /\ UNCHANGED token
           ELSE /\ token' = [token EXCEPT ![r] = tokens[1]]
                /\ pc' = [pc EXCEPT ![r] = "as"]
                /\ UNCHANGED <<status, header>>
    /\ UNCHANGED <<qry, as, files, loopVars, zipVars, fetches,
                   lookupVars, broken, panicked, envVars>>

\* lines 374-383
legAs(r) ==
    /\ impl = "legacy"
    /\ pc[r] = "as"
    /\ as' = [as EXCEPT ![r] = legArchiveName(qry[r])]
    /\ pc' = [pc EXCEPT ![r] = "resolve"]
    /\ UNCHANGED <<qry, token, files, loopVars, zipVars, header, status, fetches,
                   lookupVars, broken, panicked, envVars>>

\* lines 385-390 with getFilesFromRedis (327-358): one GET on a borrowed
\* connection, which the deferred redis.Close() returns also when the function
\* panics; a panic ends the handler with no status set
legResolve(r) ==
    /\ impl = "legacy"
    /\ pc[r] = "resolve"
    /\ \E rply \in Replies(Key(token[r])) :
         LET res == getFilesFromRedis(rply) IN
         /\ gets' = [gets EXCEPT ![r] =
                      Append(@, [key |-> Key(token[r]), rply |-> rply,
                                 held |-> store[Key(token[r])]])]
         /\ conn' = [conn EXCEPT ![r] = "closed"]
         /\ IF res.panic \/ res.err # "nil"
            THEN /\ panicked' = [panicked EXCEPT ![r] = TRUE]
                 /\ pc' = [pc EXCEPT ![r] = "done"]
                 /\ UNCHANGED files
            ELSE /\ files' = [files EXCEPT ![r] = res.files]
                 /\ pc' = [pc EXCEPT ![r] = "headers"]
                 /\ UNCHANGED panicked
    /\ UNCHANGED <<qry, token, as, loopVars, zipVars, header, status, fetches,
                   broken, envVars>>

\* lines 393-397: the two headers, zip.NewWriter(w)
legHeaders(r) ==
    /\ impl = "legacy"
    /\ pc[r] = "headers"
    /\ header' = [header EXCEPT ![r] =
                    [h \in {"Content-Disposition", "Content-Type"} |->
                       IF h = "Content-Disposition" THEN Disposition(as[r])
                       ELSE ContentType]]
    /\ zwMade' = [zwMade EXCEPT ![r] = TRUE]
    /\ pc' = [pc EXCEPT ![r] = "range"]
    /\ UNCHANGED <<inVars, loopVars, zwCloses, entries, status, fetches,
                   lookupVars, broken, panicked, envVars>>

\* lines 449-451: zipWriter.Close(), the log line
legReturn(r) ==
    /\ impl = "legacy"
    /\ pc[r] = "return"
    /\ zwCloses' = [zwCloses EXCEPT ![r] = @ + 1]
    /\ status' = Finished(r)
    /\ pc' = [pc EXCEPT ![r] = "done"]
    /\ UNCHANGED <<inVars, loopVars, zwMade, entries, header, fetches,
                   lookupVars, broken, panicked, envVars>>

----------------------------------------------------------------------------
(* The streaming loop: lines 151-196 of server.handler, and the same code   *)
(* at lines 398-447 of handler.                                             *)

\* the loop without the check of S3Path: every descriptor is fetched
RangeNoSkip(r) ==
    /\ pc[r] = "range"
    /\ IF idx[r] > Len(files[r])
       THEN /\ pc' = [pc EXCEPT ![r] = "return"]
            /\ UNCHANGED <<idx, safeFileName>>
       ELSE /\ safeFileName' = [safeFileName EXCEPT ![r] = EntryName(files[r][idx[r]])]
            /\ pc' = [pc EXCEPT ![r] = "fetch"]
            /\ UNCHANGED idx
    /\ UNCHANGED <<inVars, rdr, streams, f, zipVars, header, status, fetches,
                   lookupVars, broken, panicked, envVars>>

\* lines 151-161: the next descriptor; one without S3Path is skipped
Range(r) ==
    /\ pc[r] = "range"
    /\ IF idx[r] > Len(files[r])
       THEN /\ pc' = [pc EXCEPT ![r] = "return"]
            /\ UNCHANGED <<idx, safeFileName>>
       ELSE IF files[r][idx[r]].S3Path = <<>>
       THEN /\ idx' = [idx EXCEPT ![r] = @ + 1]
            /\ UNCHANGED <<pc, safeFileName>>
       ELSE /\ safeFileName' = [safeFileName EXCEPT ![r] = EntryName(files[r][idx[r]])]
            /\ pc' = [pc EXCEPT ![r] = "fetch"]
            /\ UNCHANGED idx
    /\ UNCHANGED <<inVars, rdr, streams, f, zipVars, header, status, fetches,
                   lookupVars, broken, panicked, envVars>>

\* GetReader with the continue of line 173 lost: a failed fetch goes on to
\* open an entry
GetReaderNoContinue(r) ==
    /\ pc[r] = "fetch"
    /\ \E o \in FetchOutcomes :
         /\ fetches' = [fetches EXCEPT ![r] =
                          Append(@, [i |-> idx[r],
                                     path |-> files[r][idx[r]].S3Path,
                                     outcome |-> o])]
         /\ rdr' = [rdr EXCEPT ![r] = "open"]
         /\ streams' = [streams EXCEPT ![r] = IF o = "ok" THEN @ \cup {idx[r]} ELSE @]
         /\ pc' = [pc EXCEPT ![r] = "create"]
         /\ UNCHANGED idx
    /\ UNCHANGED <<inVars, safeFileName, f, zipVars, header, status,
                   lookupVars, broken, panicked, envVars>>

\* GetReader with a break for the continue of line 173: a failed fetch ends
\* the loop
GetReaderBreak(r) ==
    /\ pc[r] = "fetch"
    /\ \E o \in FetchOutcomes :
         /\ fetches' = [fetches EXCEPT ![r] =
                          Append(@, [i |-> idx[r],
                                     path |-> files[r][idx[r]].S3Path,
                                     outcome |-> o])]
         /\ IF o # "ok"
            THEN /\ pc' = [pc EXCEPT ![r] = "return"]
                 /\ UNCHANGED <<rdr, streams, idx>>
            ELSE /\ rdr' = [rdr EXCEPT ![r] = "open"]
                 /\ streams' = [streams EXCEPT ![r] = @ \cup {idx[r]}]
                 /\ pc' = [pc EXCEPT ![r] = "create"]
                 /\ UNCHANGED idx
    /\ UNCHANGED <<inVars, safeFileName, f, zipVars, header, status,
                   lookupVars, broken, panicked, envVars>>

\* GetReader with the continue of line 173 lost in favour of a retry: a
\* failed fetch is tried again
GetReaderRetry(r) ==
    /\ pc[r] = "fetch"
    /\ \E o \in FetchOutcomes :
         /\ fetches' = [fetches EXCEPT ![r] =
                          Append(@, [i |-> idx[r],
                                     path |-> files[r][idx[r]].S3Path,
                                     outcome |-> o])]
         /\ IF o # "ok"
            THEN /\ Len(fetches[r]) < 2 * MaxFiles
                 /\ UNCHANGED <<rdr, streams, idx, pc>>
            ELSE /\ rdr' = [rdr EXCEPT ![r] = "open"]
                 /\ streams' = [streams EXCEPT ![r] = @ \cup {idx[r]}]
                 /\ pc' = [pc EXCEPT ![r] = "create"]
                 /\ UNCHANGED idx
    /\ UNCHANGED <<inVars, safeFileName, f, zipVars, header, status,
                   lookupVars, broken, panicked, envVars>>

\* lines 163-174: bucket.GetReader; on an error the descriptor is skipped
GetReader(r) ==
    /\ pc[r] = "fetch"
    /\ \E o \in FetchOutcomes :
         /\ fetches' = [fetches EXCEPT ![r] =
                          Append(@, [i |-> idx[r],
                                     path |-> files[r][idx[r]].S3Path,
                                     outcome |-> o])]
         /\ IF o # "ok"
            THEN /\ idx' = [idx EXCEPT ![r] = @ + 1]
                 /\ pc' = [pc EXCEPT ![r] = "range"]
                 /\ UNCHANGED <<rdr, streams>>
            ELSE /\ rdr' = [rdr EXCEPT ![r] = "open"]
                 /\ streams' = [streams EXCEPT ![r] = @ \cup {idx[r]}]
                 /\ pc' = [pc EXCEPT ![r] = "create"]
                 /\ UNCHANGED idx
    /\ UNCHANGED <<inVars, safeFileName, f, zipVars, header, status,
                   lookupVars, broken, panicked, envVars>>

\* CreateHeader on a zip writer kept in one place for all requests (a
\* package-level variable set by the first request) instead of the local zw
CreateHeaderShared(r) ==
    /\ pc[r] = "create"
    /\ \E werr \in BOOLEAN :
         LET bad == broken[r] \/ werr IN
         /\ broken' = [broken EXCEPT ![r] = bad]
         /\ status' = IF werr THEN WriteHeader(r, StatusOK) ELSE status
         /\ IF bad
            THEN /\ f' = [f EXCEPT ![r] = "nil"]
                 /\ UNCHANGED entries
            ELSE /\ f' = [f EXCEPT ![r] = "w"]
                 /\ entries' = [entries EXCEPT ![1] =
                      Append(@, [Name |-> ZipPath(files[r][idx[r]], safeFileName[r]),
                                 Method |-> "Deflate",
                                 from |-> idx[r]])]
    /\ pc' = [pc EXCEPT ![r] = "copy"]
    /\ UNCHANGED <<inVars, idx, safeFileName, rdr, streams, zwMade, zwCloses, header,
                   fetches, lookupVars, panicked, envVars>>

\* lines 176-192: zipPath, then f, _ := zw.CreateHeader(h).  CreateHeader
\* returns a nil writer and an error once a write to the sink has failed (the
\* error is dropped); otherwise the entry is opened in the archive.
CreateHeader(r) ==
    /\ pc[r] = "create"
    /\ \E werr \in BOOLEAN :
         LET bad == broken[r] \/ werr IN
         /\ broken' = [broken EXCEPT ![r] = bad]
         /\ status' = IF werr THEN WriteHeader(r, StatusOK) ELSE status
         /\ IF bad
            THEN /\ f' = [f EXCEPT ![r] = "nil"]
                 /\ UNCHANGED entries
            ELSE /\ f' = [f EXCEPT ![r] = "w"]
                 /\ entries' = [entries EXCEPT ![r] =
                      Append(@, [Name |-> ZipPath(files[r][idx[r]], safeFileName[r]),
                                 Method |-> "Deflate",
                                 from |-> idx[r]])]
    /\ pc' = [pc EXCEPT ![r] = "copy"]
    /\ UNCHANGED <<inVars, idx, safeFileName, rdr, streams, zwMade, zwCloses, header,
                   fetches, lookupVars, panicked, envVars>>

\* What runs when the handler panics inside the loop: in server.handler the
\* deferred zw.Close(); in handler nothing.  net/http recovers the panic.
PanicInLoop(r) ==
    /\ panicked' = [panicked EXCEPT ![r] = TRUE]
    /\ zwCloses' = [zwCloses EXCEPT ![r] = IF impl = "server" THEN @ + 1 ELSE @]
    /\ pc' = [pc EXCEPT ![r] = "done"]

\* line 194: io.Copy(f, rdr), its result dropped.  With the nil f of a failed
\* CreateHeader the first byte read from the object makes io.Copy call Write
\* on a nil interface, which panics; an empty object reads no byte.
Copy(r) ==
    /\ pc[r] = "copy"
    /\ IF f[r] = "nil"
       THEN /\ \E empty \in BOOLEAN :
                 IF empty
                 THEN /\ pc' = [pc EXCEPT ![r] = "close"]
                      /\ UNCHANGED <<zwCloses, panicked>>
                 ELSE PanicInLoop(r)
            /\ UNCHANGED <<broken, status>>
       ELSE \E werr \in BOOLEAN :
              /\ broken' = [broken EXCEPT ![r] = broken[r] \/ werr]
              /\ status' = IF werr THEN WriteHeader(r, StatusOK) ELSE status
              /\ pc' = [pc EXCEPT ![r] = "close"]
              /\ UNCHANGED <<zwCloses, panicked>>
    /\ UNCHANGED <<inVars, loopVars, zwMade, entries, header, fetches,
                   lookupVars, envVars>>

\* the loop without the rdr.Close() of line 195: the stream stays open
RdrCloseLeak(r) ==
    /\ pc[r] = "close"
    /\ idx' = [idx EXCEPT ![r] = @ + 1]
    /\ pc' = [pc EXCEPT ![r] = "range"]
    /\ UNCHANGED <<inVars, safeFileName, rdr, streams, f, zipVars, header, status,
                   fetches, lookupVars, broken, panicked, envVars>>

\* line 195: rdr.Close(), and the loop goes on
RdrClose(r) ==
    /\ pc[r] = "close"
    /\ rdr' = [rdr EXCEPT ![r] = "closed"]
    /\ streams' = [streams EXCEPT ![r] = @ \ {idx[r]}]
    /\ idx' = [idx EXCEPT ![r] = @ + 1]
    /\ pc' = [pc EXCEPT ![r] = "range"]
    /\ UNCHANGED <<inVars, safeFileName, f, zipVars, header, status, fetches,
                   lookupVars, broken, panicked, envVars>>

----------------------------------------------------------------------------
(* The specification of one request *)

Next ==
    \/ \E r \in Active : Accept(r)
    \/ \E r \in Active : srvValidate(r)
    \/ \E r \in Active : srvAs(r)
    \/ \E r \in Active : srvResolve(r)
    \/ \E r \in Active : srvHeaders(r)
    \/ \E r \in Active : srvReturn(r)
    \/ \E r \in Active : legValidate(r)
    \/ \E r \in Active : legAs(r)
    \/ \E r \in Active : legResolve(r)
    \/ \E r \in Active : legHeaders(r)
    \/ \E r \in Active : legReturn(r)
    \/ \E r \in Active : Range(r)
    \/ \E r \in Active : GetReader(r)
    \/ \E r \in Active : CreateHeader(r)
    \/ \E r \in Active : Copy(r)
    \/ \E r \in Active : RdrClose(r)

Spec == Init /\ [][Next]_vars

----------------------------------------------------------------------------
(* The specification of two requests, handled by two goroutines of net/http *)
(* whose steps interleave, while the writer of the store may remove the     *)
(* token's key.  The store holds one of three manifests.                    *)

ConcManifests ==
    { <<>>,
      <<redisFile(<<"p">>, <<"a", "?">>, <<>>)>>,
      <<redisFile(<<"p">>, <<"a">>, <<":", "/">>), redisFile(<<"p">>, <<"?">>, <<"d">>)>> }

NoRequest ==
    /\ pc = [r \in Reqs |-> "idle"]
    /\ qry = [r \in Reqs |-> <<>>]
    /\ token = [r \in Reqs |-> <<>>]
    /\ as = [r \in Reqs |-> <<>>]
    /\ files = [r \in Reqs |-> <<>>]
    /\ idx = [r \in Reqs |-> 1]
    /\ safeFileName = [r \in Reqs |-> <<>>]
    /\ rdr = [r \in Reqs |-> "none"]
    /\ streams = [r \in Reqs |-> {}]
    /\ f = [r \in Reqs |-> "none"]
    /\ zwMade = [r \in Reqs |-> FALSE]
    /\ zwCloses = [r \in Reqs |-> 0]
    /\ entries = [r \in Reqs |-> <<>>]
    /\ header = [r \in Reqs |-> <<>>]
    /\ status = [r \in Reqs |-> 0]
    /\ fetches = [r \in Reqs |-> <<>>]
    /\ gets = [r \in Reqs |-> <<>>]
    /\ conn = [r \in Reqs |-> "none"]
    /\ broken = [r \in Reqs |-> FALSE]
    /\ panicked = [r \in Reqs |-> FALSE]

ConcInit ==
    /\ impl \in Impls
    /\ store \in {[k \in Keys |-> IF k = Key(<<"t">>) THEN JSON(m) ELSE Absent] :
                    m \in ConcManifests}
    /\ NoRequest
    /\ sanIn = <<>>
    /\ sanOut = <<>>

\* The queries of the two requests: none, the token, the token and a name.
ConcQueries ==
    {q \in Queries : "token" \in DOMAIN q => (q["token"] = <<"t">> /\
                        ("as" \in DOMAIN q => q["as"] = <<"a", "?">>))}

ConcAccept(r) ==
    /\ pc[r] = "idle"
    /\ \E q \in ConcQueries : qry' = [qry EXCEPT ![r] = q]
    /\ pc' = [pc EXCEPT ![r] = "validate"]
    /\ UNCHANGED <<token, as, files, loopVars, zipVars, header, status, fetches,
                   lookupVars, broken, panicked, envVars>>

\* The writer of the store removes a key (DEL): the token is revoked.
Revoke ==
    /\ \E k \in Keys :
         /\ store[k] # Absent
         /\ store' = [store EXCEPT ![k] = Absent]
    /\ UNCHANGED <<impl, reqVars, sanIn, sanOut>>

ConcNext ==
    \/ \E r \in Reqs : ConcAccept(r)
    \/ \E r \in Reqs : srvValidate(r)
    \/ \E r \in Reqs : srvAs(r)
    \/ \E r \in Reqs : srvResolve(r)
    \/ \E r \in Reqs : srvHeaders(r)
    \/ \E r \in Reqs : srvReturn(r)
    \/ \E r \in Reqs : legValidate(r)
    \/ \E r \in Reqs : legAs(r)
    \/ \E r \in Reqs : legResolve(r)
    \/ \E r \in Reqs : legHeaders(r)
    \/ \E r \in Reqs : legReturn(r)
    \/ \E r \in Reqs : Range(r)
    \/ \E r \in Reqs : GetReader(r)
    \/ \E r \in Reqs : CreateHeader(r)
    \/ \E r \in Reqs : Copy(r)
    \/ \E r \in Reqs : RdrClose(r)
    \/ Revoke

ConcSpec == ConcInit /\ [][ConcNext]_vars

----------------------------------------------------------------------------
(* The specification of the sanitizer alone: one input, drawn from the      *)
(* strings over the characters of the class and two others, is sanitized.   *)

SanAlphabet == {"#", "<", ">", ":", "\"", "/", "\\", "|", "?", "*", "a", "."}
SanInputs == UNION {[1..n -> SanAlphabet] : n \in 0..MaxLen}

SanInit ==
    /\ impl \in Impls
    /\ store = [k \in Keys |-> Absent]
    /\ pc = [r \in Reqs |-> "idle"]
    /\ qry = [r \in Reqs |-> <<>>]
    /\ token = [r \in Reqs |-> <<>>]
    /\ as = [r \in Reqs |-> <<>>]
    /\ files = [r \in Reqs |-> <<>>]
    /\ idx = [r \in Reqs |-> 1]
    /\ safeFileName = [r \in Reqs |-> <<>>]
    /\ rdr = [r \in Reqs |-> "none"]
    /\ streams = [r \in Reqs |-> {}]
    /\ f = [r \in Reqs |-> "none"]
    /\ zwMade = [r \in Reqs |-> FALSE]
    /\ zwCloses = [r \in Reqs |-> 0]
    /\ entries = [r \in Reqs |-> <<>>]
    /\ header = [r \in Reqs |-> <<>>]
    /\ status = [r \in Reqs |-> 0]
    /\ fetches = [r \in Reqs |-> <<>>]
    /\ gets = [r \in Reqs |-> <<>>]
    /\ conn = [r \in Reqs |-> "none"]
    /\ broken = [r \in Reqs |-> FALSE]
    /\ panicked = [r \in Reqs |-> FALSE]
    /\ sanIn \in SanInputs
    /\ sanOut = <<>>

\* srv.safeFileName.ReplaceAllString(s, "") / makeSafeFileName.ReplaceAllString(s, "")
Sanitize ==
    /\ sanOut = <<>>
    /\ sanOut' = <<IF impl = "server" THEN srv_safeFileName(sanIn)
                   ELSE makeSafeFileName(sanIn)>>
    /\ UNCHANGED <<impl, store, reqVars, sanIn>>

SanNext == Sanitize

SanSpec == SanInit /\ [][SanNext]_vars

----------------------------------------------------------------------------
(* Vocabulary of the properties *)

\* the characters the sanitizer is documented to remove
ListedChars == {"#", "<", ">", ":", "\"", "/", "\\", "|", "?", "*"}

\* s without the listed characters
Strip(s) == SelectSeq(s, LAMBDA c : c \notin ListedChars)

\* the request went past resolution into the streaming phase
Streaming(r) == zwMade[r]

\* the handler has returned or panicked
Ended(r) == pc[r] = "done"

\* positions of the manifest whose fetch was called, and called with success
FetchedAt(r) == {fetches[r][k].i : k \in DOMAIN fetches[r]}
FetchedOkAt(r) ==
    {fetches[r][k].i : k \in {n \in DOMAIN fetches[r] : fetches[r][n].outcome = "ok"}}
FailedAt(r) ==
    {fetches[r][k].i : k \in {n \in DOMAIN fetches[r] : fetches[r][n].outcome # "ok"}}

\* positions of the manifest that have an entry in the archive
EntryFrom(r) == {entries[r][k].from : k \in DOMAIN entries[r]}

\* descriptors with a storagePath and a successful fetch
Fetchable(r) ==
    {i \in DOMAIN files[r] : files[r][i].S3Path # <<>> /\ i \in FetchedOkAt(r)}

\* the lookup store answered the request's GET with something that is no manifest
ResolutionFailed(r) ==
    \E k \in DOMAIN gets[r] :
        \/ gets[r][k].rply.kind \in {"err", "nil", "other"}
        \/ gets[r][k].rply.kind = "bytes" /\ gets[r][k].rply.json = "bad"

\* the query has no parameter, no token, or an empty token
BadInput(r) ==
    \/ DOMAIN qry[r] = {}
    \/ "token" \notin DOMAIN qry[r]
    \/ qry[r]["token"] = <<>>

----------------------------------------------------------------------------
(* Properties *)

\* C1: when the handler has ended a streaming phase in which no write to the
\* sink failed, every descriptor with a storagePath has been fetched exactly
\* once, the archive has exactly one entry for each descriptor that has a
\* storagePath and a successful fetch (K entries for K such descriptors), and
\* the entries are in the order of their descriptors in the manifest.
C1_EntriesAreTheFetchable ==
    \A r \in Reqs :
        (Ended(r) /\ Streaming(r) /\ ~broken[r]) =>
            /\ \A i \in DOMAIN files[r] :
                 files[r][i].S3Path # <<>> =>
                    Cardinality({k \in DOMAIN fetches[r] : fetches[r][k].i = i}) = 1
            /\ Len(entries[r]) = Cardinality(Fetchable(r))
            /\ EntryFrom(r) = Fetchable(r)
            /\ \A a, b \in DOMAIN entries[r] :
                 a < b => entries[r][a].from < entries[r][b].from

\* C1 witness: a manifest of three descriptors of which two were fetchable,
\* streamed to the end: two entries, from the first and the third descriptor.
C1_Witness ==
    \E r \in Reqs :
        /\ Ended(r) /\ Streaming(r) /\ ~broken[r]
        /\ Len(files[r]) = 3
        /\ 2 \in FailedAt(r)
        /\ Len(entries[r]) = 2
        /\ entries[r][1].from = 1 /\ entries[r][2].from = 3

\* C2: a handler that has left the streaming phase has called Close on the
\* zip writer exactly once, and for an empty manifest the archive has no entry
\* and the status is 200.
C2_FinalizedExactlyOnce ==
    \A r \in Reqs :
        (Ended(r) /\ Streaming(r)) =>
            /\ zwCloses[r] = 1
            /\ files[r] = <<>> => (entries[r] = <<>> /\ status[r] = StatusOK)

\* C3: a request whose resolution failed ends with status 401, without the
\* archive headers, without an archive and without a fetch.
C3_ResolutionFailureIs401 ==
    \A r \in Reqs :
        (Ended(r) /\ ResolutionFailed(r)) =>
            /\ status[r] = StatusUnauthorized
            /\ "Content-Disposition" \notin DOMAIN header[r]
            /\ \A h \in DOMAIN header[r] : header[r][h] # ContentType
            /\ ~zwMade[r]
            /\ entries[r] = <<>>
            /\ fetches[r] = <<>>

\* C4: a request with no parameter, no token or an empty token ends with a
\* 4xx status and never reads the lookup store.
C4_BadInputIsClientError ==
    \A r \in Reqs :
        (pc[r] # "idle" /\ BadInput(r)) =>
            /\ gets[r] = <<>>
            /\ Ended(r) => status[r] \in 400..499

\* C5: the path of every archive entry is non-empty and holds none of the
\* listed characters.
C5_EntryPathsAreClean ==
    \A r \in Reqs : \A k \in DOMAIN entries[r] :
        /\ entries[r][k].Name # <<>>
        /\ \A n \in DOMAIN entries[r][k].Name : entries[r][k].Name[n] \notin ListedChars

\* C6: the name in Content-Disposition is made of the sanitized as value, and
\* every entry path is made of the sanitized folder, at most one separator and
\* the sanitized file name.
C6_EveryNameIsSanitized ==
    \A r \in Reqs :
        /\ ("Content-Disposition" \in DOMAIN header[r] /\ "as" \in DOMAIN qry[r]) =>
              header[r]["Content-Disposition"] \in
                 {Disposition(Strip(qry[r]["as"])), Disposition(DefaultName)}
        /\ \A k \in DOMAIN entries[r] :
              LET d == files[r][entries[r][k].from]
                  name == IF Strip(d.FileName) = <<>> THEN DefaultFile
                          ELSE Strip(d.FileName)
              IN  entries[r][k].Name \in
                     {Strip(d.Folder) \o sep \o name : sep \in {<<>>, <<"/">>}}

\* C7: the name in Content-Disposition is the sanitized as value when the
\* parameter is present and sanitizes to a non-empty string, and download.zip
\* otherwise.
C7_ArchiveName ==
    \A r \in Reqs :
        "Content-Disposition" \in DOMAIN header[r] =>
            header[r]["Content-Disposition"] =
                Disposition(IF "as" \in DOMAIN qry[r] /\ Strip(qry[r]["as"]) # <<>>
                            THEN Strip(qry[r]["as"])
                            ELSE DefaultName)

\* C8: the sanitizer's result holds none of the listed characters and is the
\* input with exactly the listed characters deleted: the n-th character of the
\* result is the n-th character of the input that is not listed, and there
\* are as many as the input has unlisted characters.
C8_SanitizerDeletesListed ==
    sanOut # <<>> =>
        LET out == sanOut[1]
            keep == {j \in DOMAIN sanIn : sanIn[j] \notin ListedChars}
            nth(n) == CHOOSE j \in keep : Cardinality({k \in keep : k <= j}) = n
        IN  /\ \A n \in DOMAIN out : out[n] \notin ListedChars
            /\ Len(out) = Cardinality(keep)
            /\ \A n \in DOMAIN out : out[n] = sanIn[nth(n)]

\* C8 witness: an input with a backslash between two other characters was
\* sanitized to those two characters.
C8_Witness ==
    /\ sanOut # <<>>
    /\ Len(sanIn) = 3
    /\ sanIn[1] \notin ListedChars /\ sanIn[2] = "\\" /\ sanIn[3] \notin ListedChars
    /\ sanOut[1] = <<sanIn[1], sanIn[3]>>

\* C9: a descriptor with an empty storagePath is never fetched and has no
\* entry, and no fetch is called with an empty path.
C9_NoPathNoFetchNoEntry ==
    \A r \in Reqs :
        /\ \A i \in DOMAIN files[r] :
             files[r][i].S3Path = <<>> => (i \notin FetchedAt(r) /\ i \notin EntryFrom(r))
        /\ \A k \in DOMAIN fetches[r] : fetches[r][k].path # <<>>

\* C9 witness: the handler has ended after a manifest whose second descriptor
\* has no storagePath and whose first and third have an entry.
C9_Witness ==
    \E r \in Reqs :
        /\ Ended(r) /\ Streaming(r)
        /\ Len(files[r]) = 3
        /\ files[r][2].S3Path = <<>>
        /\ EntryFrom(r) = {1, 3}
        /\ FetchedAt(r) = {1, 3}

\* C10: a descriptor whose fetch failed has no entry; and when the handler has
\* returned, every descriptor behind it that has a storagePath was fetched, and
\* has an entry if its fetch succeeded and no write to the sink failed.
C10_FailedFetchSkipsOnlyItself ==
    \A r \in Reqs :
        /\ FailedAt(r) \cap EntryFrom(r) = {}
        /\ (Ended(r) /\ Streaming(r) /\ ~panicked[r]) =>
              \A i \in FailedAt(r) : \A j \in DOMAIN files[r] :
                 j > i =>
                    /\ files[r][j].S3Path # <<>> => j \in FetchedAt(r)
                    /\ (j \in FetchedOkAt(r) /\ ~broken[r]) => j \in EntryFrom(r)

\* C10 witness: the first fetch was not found, the second failed otherwise,
\* the third succeeded and has the archive's only entry.
C10_Witness ==
    \E r \in Reqs :
        /\ Ended(r) /\ ~panicked[r] /\ ~broken[r]
        /\ Len(fetches[r]) = 3
        /\ fetches[r][1].outcome = "notfound"
        /\ fetches[r][2].outcome = "failed"
        /\ fetches[r][3].outcome = "ok"
        /\ EntryFrom(r) = {3}

\* the request's GET was answered with the bytes of a manifest
ResolvedManifest(r) ==
    \E k \in DOMAIN gets[r] :
        gets[r][k].rply.kind = "bytes" /\ gets[r][k].rply.json = "list"

\* the archive headers are on the response
ArchiveHeaders(r) ==
    \/ "Content-Disposition" \in DOMAIN header[r]
    \/ \E h \in DOMAIN header[r] : header[r][h] = ContentType

\* C11: the archive headers are set and the zip writer exists only after the
\* store answered with a manifest; from then on the status is 200 or not yet
\* written, and it is 200 when the handler has ended, whatever was skipped.
C11_HeadersAfterResolution ==
    \A r \in Reqs :
        /\ (ArchiveHeaders(r) \/ Streaming(r) \/ entries[r] # <<>>) => ResolvedManifest(r)
        /\ Streaming(r) => status[r] \in {0, StatusOK}
        /\ (Streaming(r) /\ Ended(r)) => status[r] = StatusOK

\* the folder without the "/" it may end with
Stem(folder) ==
    IF folder # <<>> /\ folder[Len(folder)] = "/"
    THEN SubSeq(folder, 1, Len(folder) - 1) ELSE folder

\* C12: the path of an entry whose descriptor has a folder is the folder as
\* stored up to a "/" it may end with, one "/", and the sanitized file name
\* ("file" when that is empty); without a folder it is the name alone.
C12_OneSeparator ==
    \A r \in Reqs : \A k \in DOMAIN entries[r] :
        LET d == files[r][entries[r][k].from]
            name == IF Strip(d.FileName) = <<>> THEN DefaultFile ELSE Strip(d.FileName)
        IN  entries[r][k].Name =
               IF d.Folder = <<>> THEN name
               ELSE Stem(d.Folder) \o <<"/">> \o name

\* C12 witness: one archive with an entry under a folder stored without "/",
\* an entry under a folder stored with "/", and an entry without folder.
C12_Witness ==
    \E r \in Reqs :
        /\ Ended(r)
        /\ \E k \in DOMAIN entries[r] : entries[r][k].Name = <<"d", "/", "f", "i", "l", "e">>
        /\ \E k \in DOMAIN entries[r] : entries[r][k].Name = <<":", "/", "a">>
        /\ \E k \in DOMAIN entries[r] : entries[r][k].Name = <<"a">>

\* C13: in no step of a request whose sink has failed is an object fetched,
\* CreateHeader called, an entry added or the zip writer closed.
C13_NothingAfterSinkFailure ==
    [][\A r \in Reqs :
          broken[r] =>
             /\ fetches'[r] = fetches[r]
             /\ entries'[r] = entries[r]
             /\ zwCloses'[r] = zwCloses[r]
             /\ ~(pc[r] = "create" /\ pc'[r] # "create")]_vars

\* C14: between two descriptors and when the handler has ended, no object
\* stream that a fetch returned is still open.
C14_StreamsAreClosed ==
    \A r \in Reqs : pc[r] \in {"range", "return", "done"} => streams[r] = {}

\* C15: a request has at most one object stream open, the one of the
\* descriptor the loop is at; when a fetch starts no stream is open, so every
\* earlier stream was copied and closed; and the pooled connection was given
\* back before the loop and its first fetch.
C15_OneStreamAtATime ==
    \A r \in Reqs :
        /\ Cardinality(streams[r]) <= 1
        /\ streams[r] \subseteq {idx[r]}
        /\ pc[r] = "fetch" => streams[r] = {}
        /\ (Streaming(r) \/ fetches[r] # <<>>) => conn[r] = "closed"
        /\ conn[r] = "closed" => Len(gets[r]) = 1

\* C15 witness: the stream of the first descriptor was opened and closed, and
\* the fetch of the second is about to start with no stream open.
C15_Witness ==
    \E r \in Reqs :
        /\ pc[r] = "fetch" /\ idx[r] = 2
        /\ 1 \in FetchedOkAt(r) /\ 1 \in EntryFrom(r)
        /\ streams[r] = {}
        /\ conn[r] = "closed"

\* C16: no handler panics: a request that has ended was rejected, was refused
\* as unauthorized or was streamed.
C16_NoPanic ==
    \A r \in Reqs :
        /\ ~panicked[r]
        /\ Ended(r) =>
              \/ status[r] \in 400..499 /\ gets[r] = <<>>
              \/ status[r] = StatusUnauthorized /\ ~Streaming(r)
              \/ status[r] = StatusOK /\ Streaming(r)

\* C17: a request reads the lookup store at most once, under the key
\* "zip:" + its token; the reply is what the store holds at that moment (no
\* result kept from an earlier call); the connection is back in the pool when
\* the resolver has returned; and a request whose GET came after the key was
\* removed ends as Unauthorized, without archive, also when another request
\* with the same token was streamed before the removal.
C17_RevocationTakesEffect ==
    \A r \in Reqs :
        /\ Len(gets[r]) <= 1
        /\ \A k \in DOMAIN gets[r] :
             /\ gets[r][k].key = ZipPrefix \o token[r]
             /\ gets[r][k].rply.kind = "bytes" => gets[r][k].rply = gets[r][k].held
             /\ gets[r][k].rply.kind = "nil" => gets[r][k].held = Absent
        /\ gets[r] # <<>> => conn[r] = "closed"
        /\ \A k \in DOMAIN gets[r] :
             (Ended(r) /\ gets[r][k].held = Absent) =>
                 /\ status[r] = StatusUnauthorized
                 /\ ~Streaming(r)
                 /\ fetches[r] = <<>>

\* everything a request owns
ReqState(r) ==
    <<pc[r], qry[r], token[r], as[r], files[r], idx[r], safeFileName[r], rdr[r],
      streams[r], f[r], zwMade[r], zwCloses[r], entries[r], header[r], status[r],
      fetches[r], gets[r], conn[r], broken[r], panicked[r]>>

\* What a request produces when it is alone, from its own query, the reply
\* its own GET got, the outcomes of its own fetches and of its own writes:

\* ... the archive name
SoloName(r) ==
    IF impl = "server" THEN srvArchiveName(qry[r]) ELSE legArchiveName(qry[r])

\* ... the manifest
SoloFiles(r) ==
    IF gets[r] # <<>> /\ gets[r][1].rply.kind = "bytes" /\ gets[r][1].rply.json = "list"
    THEN gets[r][1].rply.list ELSE <<>>

\* ... the status it ends with
SoloStatus(r) ==
    IF impl = "server"
    THEN IF BadInput(r) THEN StatusBadRequest
         ELSE IF ResolutionFailed(r) THEN StatusUnauthorized
         ELSE StatusOK
    ELSE IF "token" \notin DOMAIN qry[r] THEN StatusInternalServerError
         ELSE IF ResolutionFailed(r) /\ gets[r][1].rply.kind # "other" THEN 0
         ELSE StatusOK

\* C18: under every interleaving of two requests, a step changes the state of
\* one request only, and each request's archive name, manifest, entries and
\* final status are those it produces alone from its own query, its own
\* reply from the store, its own fetch outcomes and its own sink.
C18_RequestsAreIndependent ==
    /\ [](\A r \in Reqs :
            /\ "Content-Disposition" \in DOMAIN header[r] =>
                  header[r]["Content-Disposition"] = Disposition(SoloName(r))
            /\ files[r] = SoloFiles(r)
            /\ \A k \in DOMAIN entries[r] :
                  /\ entries[r][k].from \in FetchedOkAt(r)
                  /\ entries[r][k].Name =
                        ZipPath(files[r][entries[r][k].from],
                                EntryName(files[r][entries[r][k].from]))
            /\ \A a, b \in DOMAIN entries[r] :
                  a < b => entries[r][a].from < entries[r][b].from
            /\ (Ended(r) /\ ~broken[r]) => EntryFrom(r) = FetchedOkAt(r)
            /\ streams[r] \subseteq FetchedOkAt(r)
            /\ Ended(r) => status[r] = SoloStatus(r))
    /\ [][\A r1, r2 \in Reqs :
            r1 # r2 => (ReqState(r1)' = ReqState(r1) \/ ReqState(r2)' = ReqState(r2))]_vars

\* C18 witness: two requests for the same token are copying their second
\* object at the same moment, under different archive names; the first has
\* two entries, the second, whose first fetch failed, has one.
C18_Witness ==
    /\ pc[1] = "copy" /\ pc[2] = "copy"
    /\ streams[1] = {2} /\ streams[2] = {2}
    /\ token[1] = token[2]
    /\ as[1] # as[2]
    /\ f[1] = "w" /\ f[2] = "w"
    /\ Len(entries[1]) = 2 /\ Len(entries[2]) = 1
    /\ 1 \in FailedAt(2)

\* the number of GetReader calls for position i of the manifest
FetchCount(r, i) == Cardinality({k \in DOMAIN fetches[r] : fetches[r][k].i = i})

\* the loop is inside its body, at the descriptor idx
InBody(r) == pc[r] \in {"create", "copy", "close"} \/ (pc[r] = "done" /\ panicked[r])

\* an upper bound of the steps the handler of r still takes
StepsLeft(r) ==
    LET left == 5 * (Len(files[r]) + 1 - idx[r]) IN
    CASE pc[r] = "idle"     -> 5 * (MaxFiles + 1) + 10
      [] pc[r] = "validate" -> 5 * (MaxFiles + 1) + 9
      [] pc[r] = "as"       -> 5 * (MaxFiles + 1) + 8
      [] pc[r] = "resolve"  -> 5 * (MaxFiles + 1) + 7
      [] pc[r] = "headers"  -> left + 6
      [] pc[r] = "range"    -> left + 5
      [] pc[r] = "fetch"    -> left + 4
      [] pc[r] = "create"   -> left + 3
      [] pc[r] = "copy"     -> left + 2
      [] pc[r] = "close"    -> left + 1
      [] pc[r] = "return"   -> 1
      [] pc[r] = "done"     -> 0

\* C19: GetReader is called for strictly increasing positions of the manifest
\* (no retry, no second fetch), only with a non-empty path; every descriptor
\* the loop has passed was fetched exactly once if it has a storagePath and
\* never otherwise, and no descriptor ahead of the loop was fetched; when the
\* handler has ended and no write to the sink failed the loop has passed every
\* descriptor; and the handler terminates: a handler that has not ended can
\* take a step, and every step lowers the bound of the steps that are left.
C19_OneFetchPerDescriptor ==
    /\ [](\A r \in Reqs :
            /\ \A a, b \in DOMAIN fetches[r] :
                  a < b => fetches[r][a].i < fetches[r][b].i
            /\ \A k \in DOMAIN fetches[r] :
                  /\ fetches[r][k].i \in DOMAIN files[r]
                  /\ fetches[r][k].path = files[r][fetches[r][k].i].S3Path
                  /\ fetches[r][k].path # <<>>
            /\ \A i \in DOMAIN files[r] :
                  /\ i < idx[r] =>
                       FetchCount(r, i) = IF files[r][i].S3Path # <<>> THEN 1 ELSE 0
                  /\ (i = idx[r] /\ InBody(r)) => FetchCount(r, i) = 1
                  /\ (i = idx[r] /\ ~InBody(r)) => FetchCount(r, i) = 0
                  /\ i > idx[r] => FetchCount(r, i) = 0
            /\ (Ended(r) /\ Streaming(r) /\ ~broken[r]) => idx[r] = Len(files[r]) + 1
            /\ pc[r] = "return" => idx[r] = Len(files[r]) + 1
            /\ (r \in Active /\ pc[r] \notin {"idle", "done"}) => ENABLED Next)
    /\ [][StepsLeft(1) + StepsLeft(2) > StepsLeft(1)' + StepsLeft(2)']_vars

\* C19 witness: a manifest of three descriptors, the first without
\* storagePath; the handler has ended after two fetches, of the second (which
\* failed) and of the third.
C19_Witness ==
    \E r \in Reqs :
        /\ Ended(r) /\ ~broken[r]
        /\ Len(files[r]) = 3
        /\ files[r][1].S3Path = <<>>
        /\ Len(fetches[r]) = 2
        /\ fetches[r][1].i = 2 /\ fetches[r][1].outcome # "ok"
        /\ fetches[r][2].i = 3 /\ fetches[r][2].outcome = "ok"
        /\ idx[r] = 4

\* the handler of r has sent a status, or the first bytes of a body
Answered(r) == status[r] # 0

\* C20: a request that has ended has a status, which is a 4xx for a rejected
\* input (and then the lookup store was not read), 401 for a failed
\* resolution, or 200 after the streaming phase; a status once set never
\* changes; the lookup store is read at most once per request; and a request
\* that has called the object store has no status other than 200.
C20_OneStatusPerRequest ==
    /\ [](\A r \in Reqs :
            /\ Ended(r) =>
                 /\ Answered(r)
                 /\ \/ BadInput(r) /\ status[r] \in 400..499 /\ gets[r] = <<>>
                    \/ ResolutionFailed(r) /\ status[r] = StatusUnauthorized
                    \/ Streaming(r) /\ status[r] = StatusOK
            /\ Len(gets[r]) <= 1
            /\ fetches[r] # <<>> => status[r] \in {0, StatusOK})
    /\ [][\A r \in Reqs : Answered(r) => status'[r] = status[r]]_vars

====
